---- MODULE Spec2Model ----
(***************************************************************************)
(* Model of the catalog browser: ApiService (query construction) and       *)
(* TechDataComponent (cascading filters, pagination, asynchronous HTTP     *)
(* completions interleaved on one event loop).                             *)
(***************************************************************************)
EXTENDS Integers, Sequences, FiniteSets, TLC

(* ---------------------------------------------------------------------- *)
(* Bounds of the model                                                     *)
(* ---------------------------------------------------------------------- *)

\* handler invocations by the user in one session
MaxClicks == 4

\* listing requests that may be in flight at once
MaxListing == 2

\* cascades (forkJoin groups) that may be in flight at once, per level
MaxCascades == 2

(* ---------------------------------------------------------------------- *)
(* The triple store the endpoint serves (environment)                      *)
(* ---------------------------------------------------------------------- *)

NULL == "null"

TopCategories == <<"Laptops", "Phones">>

StoreLabels == <<"Anhoch">>

SubCategoriesOf(category) ==
  CASE category = "Laptops" -> <<"Gaming", "Ultrabook">>
    [] category = "Phones"  -> <<"Gaming">>
    [] OTHER                -> <<>>

EndCategoriesOf(subCategory) ==
  CASE subCategory = "Gaming"    -> <<"RTX">>
    [] subCategory = "Ultrabook" -> <<"RTX", "OLED">>
    [] OTHER                     -> <<>>

\* values the count subquery may carry (COUNT yields a non-negative integer)
TotalCounts == {0, 30, 61}

\* what the user may type into the go-to-page box
PageInputs ==
  { <<>>, <<"0">>, <<"2">>, <<"3">>, <<"9", "9">>, <<"-", "1">>, <<"a">> }

\* a number | null field: <<>> is null, <<n>> is the number n
NoNumber == <<>>

\* values of <<minPrice, maxPrice, minDiscount, maxDiscount>> the user may enter
NumericInputs ==
  { <<NoNumber, NoNumber, NoNumber, NoNumber>>, <<<<100>>, <<500>>, <<10>>, <<50>>>> }

(* ---------------------------------------------------------------------- *)
(* JavaScript helpers                                                      *)
(* ---------------------------------------------------------------------- *)

Digits == <<"0", "1", "2", "3", "4", "5", "6", "7", "8", "9">>

IsDigit(ch) == \E d \in 1..Len(Digits) : Digits[d] = ch

DigitValue(ch) == (CHOOSE d \in 1..Len(Digits) : Digits[d] = ch) - 1

RECURSIVE DecimalValue(_)
DecimalValue(chars) ==
  IF chars = <<>> THEN 0
  ELSE 10 * DecimalValue(SubSeq(chars, 1, Len(chars) - 1))
       + DigitValue(chars[Len(chars)])

AllDigits(chars) == \A k \in 1..Len(chars) : IsDigit(chars[k])

\* Number(string) / unary plus on a string of characters: a number, or NaN
ToNumber(chars) ==
  IF chars = <<>> THEN [isNaN |-> FALSE, value |-> 0]
  ELSE IF AllDigits(chars) THEN [isNaN |-> FALSE, value |-> DecimalValue(chars)]
  ELSE IF chars[1] = "-" /\ Len(chars) > 1 /\ AllDigits(Tail(chars))
       THEN [isNaN |-> FALSE, value |-> 0 - DecimalValue(Tail(chars))]
  ELSE [isNaN |-> TRUE, value |-> 0]

\* the decimal string of a non-negative integer, as a sequence of characters
RECURSIVE NumberChars(_)
NumberChars(n) ==
  IF n < 10 THEN <<Digits[n + 1]>>
  ELSE Append(NumberChars(n \div 10), Digits[(n % 10) + 1])

\* Math.ceil(n / d) for d > 0
Ceil(n, d) == 0 - ((0 - n) \div d)

\* Array.prototype.filter(x => x !== value)
RECURSIVE Without(_, _)
Without(seq, value) ==
  IF seq = <<>> THEN <<>>
  ELSE IF Head(seq) = value THEN Without(Tail(seq), value)
  ELSE <<Head(seq)>> \o Without(Tail(seq), value)

Range(seq) == { seq[k] : k \in 1..Len(seq) }

\* Array.prototype.flat() on an array of arrays
RECURSIVE Flat(_)
Flat(arrays) ==
  IF arrays = <<>> THEN <<>> ELSE Head(arrays) \o Flat(Tail(arrays))

\* [...new Set(array)]: first occurrences, in insertion order
RECURSIVE Dedupe(_)
Dedupe(seq) ==
  IF seq = <<>> THEN <<>>
  ELSE LET init == Dedupe(SubSeq(seq, 1, Len(seq) - 1))
           last == seq[Len(seq)]
       IN IF last \in Range(init) THEN init ELSE Append(init, last)

\* Array.prototype.join(sep) on an array of strings
RECURSIVE Join(_, _)
Join(strings, sep) ==
  IF strings = <<>> THEN ""
  ELSE IF Len(strings) = 1 THEN strings[1]
  ELSE strings[1] \o sep \o Join(Tail(strings), sep)

\* remove the element at position i of a sequence
RemoveAt(seq, i) == SubSeq(seq, 1, i - 1) \o SubSeq(seq, i + 1, Len(seq))

(* ---------------------------------------------------------------------- *)
(* ApiService                                                              *)
(* ---------------------------------------------------------------------- *)

\* values.map(c => `"${c}"`).join(',')
QuotedList(values) ==
  Join([k \in 1..Len(values) |-> "\"" \o values[k] \o "\""], ",")

CategoryPattern == "?product :hasCategory ?cat . ?cat rdfs:label ?catName . "

\* the chain written with independent ifs: every non-empty level is pushed
FilterConditions_NoElse(cats, subs, ends) ==
  (IF Len(ends) > 0 THEN <<"?catName IN (" \o QuotedList(ends) \o ")">> ELSE <<>>)
  \o (IF Len(subs) > 0 THEN <<"?catName IN (" \o QuotedList(subs) \o ")">> ELSE <<>>)
  \o (IF Len(cats) > 0 THEN <<"?catName IN (" \o QuotedList(cats) \o ")">> ELSE <<>>)

\* the filterConditions array built by the if / else-if chain
FilterConditions(cats, subs, ends) ==
  IF Len(ends) > 0 THEN <<"?catName IN (" \o QuotedList(ends) \o ")">>
  ELSE IF Len(subs) > 0 THEN <<"?catName IN (" \o QuotedList(subs) \o ")">>
  ELSE IF Len(cats) > 0 THEN <<"?catName IN (" \o QuotedList(cats) \o ")">>
  ELSE <<>>

CategoryFilters(cats, subs, ends) ==
  IF Len(ends) > 0 \/ Len(subs) > 0 \/ Len(cats) > 0
  THEN LET filterConditions == FilterConditions(cats, subs, ends)
       IN IF Len(filterConditions) > 0
          THEN CategoryPattern \o "FILTER(" \o Join(filterConditions, " || ") \o ")"
          ELSE CategoryPattern
  ELSE ""

StoreFilters(storeSel) ==
  IF Len(storeSel) > 0
  THEN "?product :soldBy ?storeNode . ?storeNode rdfs:label ?storeName . "
       \o "FILTER(?storeName IN (" \o QuotedList(storeSel) \o "))"
  ELSE ""

BoundFilter(field, op, bound) ==
  IF bound # NoNumber
  THEN "FILTER(xsd:decimal(" \o field \o ") " \o op \o " " \o ToString(bound[1]) \o ")\n"
  ELSE ""

PriceDiscountFilters(minP, maxP, minD, maxD) ==
  BoundFilter("?regularPrice", ">=", minP)
  \o BoundFilter("?regularPrice", "<=", maxP)
  \o BoundFilter("?discountPercent", ">=", minD)
  \o BoundFilter("?discountPercent", "<=", maxD)

\* the rendered query: the three filter blocks and the window of the
\* paginated subquery (the fixed text of the template is left out)
GetGraphData(limit, offset, cats, subs, ends, minP, maxP, minD, maxD, storeSel) ==
  [ categoryFilters      |-> CategoryFilters(cats, subs, ends),
    storeFilters         |-> StoreFilters(storeSel),
    priceDiscountFilters |-> PriceDiscountFilters(minP, maxP, minD, maxD),
    limit                |-> limit,
    offset               |-> offset ]

\* SPARQL JSON results: one binding per label, under variable `name`
Bindings(labels) ==
  [k \in 1..Len(labels) |-> [type |-> "literal", value |-> labels[k]]]

\* response.results.bindings.map(b => b[name].value)
Labels(bindings) == [k \in 1..Len(bindings) |-> bindings[k].value]

\* a listing page: every row carries the scalar of the count subquery
ListingRow(count) ==
  [product |-> "p", totalCount |-> [type |-> "literal", value |-> NumberChars(count)]]

\* the bindings a listing response may carry: no row, or rows with a count
ListingResponses == { <<>> } \cup { <<ListingRow(n)>> : n \in TotalCounts }

(* ---------------------------------------------------------------------- *)
(* TechDataComponent: state                                                *)
(* ---------------------------------------------------------------------- *)

VARIABLES
  categories, subCategories, endCategories, stores,
  selectedCategories, selectedSubCategories, selectedEndCategories, selectedStores,
  minPrice, maxPrice, minDiscount, maxDiscount,
  tableData, isLoading, error,
  currentPage, totalPages,
  started,        \* ngOnInit has run
  categoriesReq,  \* getCategories() call: "none", "pending" or "done"
  storesReq,      \* getStores() call: "none", "pending" or "done"
  posted,         \* the listing requests sent so far: none, or the last one
  listing,        \* getGraphData() responses awaited, in the order issued
  subCascades,    \* forkJoin groups of getSubCategories() in flight
  endCascades,    \* forkJoin groups of getEndCategories() in flight
  uncaught,       \* an exception escaped a handler or callback
  clicks          \* handler invocations by the user so far

options == <<categories, subCategories, endCategories, stores>>

selections ==
  <<selectedCategories, selectedSubCategories, selectedEndCategories, selectedStores>>

numeric == <<minPrice, maxPrice, minDiscount, maxDiscount>>

table == <<tableData, isLoading, error>>

pages == <<currentPage, totalPages>>

requests == <<categoriesReq, storesReq, posted, listing, subCascades, endCascades>>

vars ==
  <<options, selections, numeric, table, pages, started, requests, uncaught, clicks>>

pageSize == 30

Init ==
  /\ categories = <<>> /\ subCategories = <<>>
  /\ endCategories = <<>> /\ stores = <<>>
  /\ selectedCategories = <<>> /\ selectedSubCategories = <<>>
  /\ selectedEndCategories = <<>> /\ selectedStores = <<>>
  /\ minPrice = NoNumber /\ maxPrice = NoNumber
  /\ minDiscount = NoNumber /\ maxDiscount = NoNumber
  /\ tableData = <<>> /\ isLoading = TRUE /\ error = NULL
  /\ currentPage = 1 /\ totalPages = 1
  /\ started = FALSE
  /\ categoriesReq = "none" /\ storesReq = "none"
  /\ posted = <<>> /\ listing = <<>>
  /\ subCascades = <<>> /\ endCascades = <<>>
  /\ uncaught = FALSE
  /\ clicks = 0

(* ---------------------------------------------------------------------- *)
(* TechDataComponent: requests                                             *)
(* ---------------------------------------------------------------------- *)

\* fetchData() with the offset of a 0-based page number
FetchData_ZeroBasedPage(page, cats, subs, ends, storeSel) ==
  LET offset == page * pageSize
  IN /\ isLoading' = TRUE
     /\ error' = NULL
     /\ posted' = << [ limit |-> pageSize, offset |-> offset,
                       categories |-> cats, subCategories |-> subs,
                       endCategories |-> ends,
                       minPrice |-> minPrice, maxPrice |-> maxPrice,
                       minDiscount |-> minDiscount, maxDiscount |-> maxDiscount,
                       selectedStores |-> storeSel,
                       query |-> GetGraphData(pageSize, offset, cats, subs, ends,
                                              minPrice, maxPrice, minDiscount,
                                              maxDiscount, storeSel) ] >>
     /\ listing' = Append([k \in 1..Len(listing) |-> [newest |-> FALSE]],
                          [newest |-> TRUE])

\* fetchData(): raise the loading flag, clear the error and post the
\* listing query for page `page` with the filters given; its response is
\* now the newest one awaited
FetchData(page, cats, subs, ends, storeSel) ==
  LET offset == (page - 1) * pageSize
  IN /\ isLoading' = TRUE
     /\ error' = NULL
     /\ posted' = << [ limit |-> pageSize, offset |-> offset,
                       categories |-> cats, subCategories |-> subs,
                       endCategories |-> ends,
                       minPrice |-> minPrice, maxPrice |-> maxPrice,
                       minDiscount |-> minDiscount, maxDiscount |-> maxDiscount,
                       selectedStores |-> storeSel,
                       query |-> GetGraphData(pageSize, offset, cats, subs, ends,
                                              minPrice, maxPrice, minDiscount,
                                              maxDiscount, storeSel) ] >>
     /\ listing' = Append([k \in 1..Len(listing) |-> [newest |-> FALSE]],
                          [newest |-> TRUE])

\* a forkJoin over one lookup per parent, none of them answered yet
NewCascade(parents) ==
  [ parents |-> parents,
    values  |-> [k \in 1..Len(parents) |-> [done |-> FALSE, value |-> <<>>]],
    failed  |-> {} ]

\* the inner observable j of a cascade emits `value` (after map / catchError)
Settle(cascade, j, value, isError) ==
  [ cascade EXCEPT !.values[j] = [done |-> TRUE, value |-> value],
                   !.failed = IF isError THEN @ \cup {j} ELSE @ ]

\* a join that emits as soon as one of its lookups has answered
AllDone_Any(cascade) == \E k \in 1..Len(cascade.values) : cascade.values[k].done

AllDone(cascade) == \A k \in 1..Len(cascade.values) : cascade.values[k].done

\* results.flat() followed by [...new Set(...)]
Merged(cascade) ==
  Dedupe(Flat([k \in 1..Len(cascade.values) |-> cascade.values[k].value]))

\* loadSubCategories() with selectedCategories = cats
LoadSubCategories(cats) ==
  /\ subCategories' = <<>>
  /\ selectedSubCategories' = <<>>
  /\ endCategories' = <<>>
  /\ selectedEndCategories' = <<>>
  /\ subCascades' = IF Len(cats) = 0 THEN subCascades
                    ELSE Append(subCascades, NewCascade(cats))

\* loadEndCategories() without the reset of the end-category option list
LoadEndCategories_KeepsOptions(subs) ==
  /\ endCategories' = endCategories
  /\ selectedEndCategories' = <<>>
  /\ endCascades' = IF Len(subs) = 0 THEN endCascades
                    ELSE Append(endCascades, NewCascade(subs))

\* loadEndCategories() with selectedSubCategories = subs
LoadEndCategories(subs) ==
  /\ endCategories' = <<>>
  /\ selectedEndCategories' = <<>>
  /\ endCascades' = IF Len(subs) = 0 THEN endCascades
                    ELSE Append(endCascades, NewCascade(subs))

(* ---------------------------------------------------------------------- *)
(* TechDataComponent: startup and option lookups                           *)
(* ---------------------------------------------------------------------- *)

NgOnInit ==
  /\ ~started
  /\ started' = TRUE
  /\ categoriesReq' = "pending"
  /\ storesReq' = "pending"
  /\ FetchData(currentPage, selectedCategories, selectedSubCategories,
               selectedEndCategories, selectedStores)
  /\ UNCHANGED <<options, selections, numeric, tableData, pages,
                 subCascades, endCascades, uncaught>>

LoadInitialCategoriesNext ==
  /\ categoriesReq = "pending"
  /\ categoriesReq' = "done"
  /\ categories' = Labels(Bindings(TopCategories))
  /\ UNCHANGED <<subCategories, endCategories, stores, selections, numeric, table,
                 pages, started, storesReq, posted, listing, subCascades,
                 endCascades, uncaught>>

LoadInitialCategoriesError ==
  /\ categoriesReq = "pending"
  /\ categoriesReq' = "done"
  /\ error' = "Could not load categories."
  /\ UNCHANGED <<options, selections, numeric, tableData, isLoading, pages, started,
                 storesReq, posted, listing, subCascades, endCascades, uncaught>>

LoadStoresNext ==
  /\ storesReq = "pending"
  /\ storesReq' = "done"
  /\ stores' = Labels(Bindings(StoreLabels))
  /\ UNCHANGED <<categories, subCategories, endCategories, selections, numeric,
                 table, pages, started, categoriesReq, posted, listing,
                 subCascades, endCascades, uncaught>>

LoadStoresError ==
  /\ storesReq = "pending"
  /\ storesReq' = "done"
  /\ error' = "Could not load stores."
  /\ UNCHANGED <<options, selections, numeric, tableData, isLoading, pages, started,
                 categoriesReq, posted, listing, subCascades, endCascades,
                 uncaught>>

(* ---------------------------------------------------------------------- *)
(* TechDataComponent: filter handlers                                      *)
(* ---------------------------------------------------------------------- *)

\* a checkbox reports checked = TRUE only for an unselected option it shows,
\* and checked = FALSE only for a selected value
MayToggle(value, isChecked, shown, selected) ==
  IF isChecked THEN value \in Range(shown) /\ value \notin Range(selected)
  ELSE value \in Range(selected)

OnCategoryChange(category, isChecked) ==
  /\ MayToggle(category, isChecked, categories, selectedCategories)
  /\ Len(subCascades) < MaxCascades
  /\ selectedCategories' = IF isChecked THEN Append(selectedCategories, category)
                           ELSE Without(selectedCategories, category)
  /\ LoadSubCategories(selectedCategories')
  /\ UNCHANGED <<categories, stores, selectedStores, numeric, table, pages, started,
                 categoriesReq, storesReq, posted, listing, endCascades, uncaught>>

\* onStoreChange() that also refreshes the listing
OnStoreChange_Fetches(store, isChecked) ==
  /\ MayToggle(store, isChecked, stores, selectedStores)
  /\ Len(listing) < MaxListing
  /\ selectedStores' = IF isChecked THEN Append(selectedStores, store)
                       ELSE Without(selectedStores, store)
  /\ FetchData(currentPage, selectedCategories, selectedSubCategories,
               selectedEndCategories, selectedStores')
  /\ UNCHANGED <<options, selectedCategories, selectedSubCategories,
                 selectedEndCategories, numeric, tableData, pages, started,
                 categoriesReq, storesReq, subCascades, endCascades, uncaught>>

OnStoreChange(store, isChecked) ==
  /\ MayToggle(store, isChecked, stores, selectedStores)
  /\ selectedStores' = IF isChecked THEN Append(selectedStores, store)
                       ELSE Without(selectedStores, store)
  /\ UNCHANGED <<options, selectedCategories, selectedSubCategories,
                 selectedEndCategories, numeric, table, pages, started, requests,
                 uncaught>>

OnSubCategoryChange(subCategory, isChecked) ==
  /\ MayToggle(subCategory, isChecked, subCategories, selectedSubCategories)
  /\ Len(endCascades) < MaxCascades
  /\ selectedSubCategories' = IF isChecked
                              THEN Append(selectedSubCategories, subCategory)
                              ELSE Without(selectedSubCategories, subCategory)
  /\ LoadEndCategories(selectedSubCategories')
  /\ UNCHANGED <<categories, subCategories, stores, selectedCategories,
                 selectedStores, numeric, table, pages, started, categoriesReq,
                 storesReq, posted, listing, subCascades, uncaught>>

OnEndCategoryChange(endCategory, isChecked) ==
  /\ MayToggle(endCategory, isChecked, endCategories, selectedEndCategories)
  /\ selectedEndCategories' = IF isChecked
                              THEN Append(selectedEndCategories, endCategory)
                              ELSE Without(selectedEndCategories, endCategory)
  /\ UNCHANGED <<options, selectedCategories, selectedSubCategories, selectedStores,
                 numeric, table, pages, started, requests, uncaught>>

\* removeChip() whose 'sub' case does not reload the end categories
RemoveChip_NoEndReload(type, value) ==
  CASE type = "category" ->
         /\ value \in Range(selectedCategories)
         /\ Len(subCascades) < MaxCascades
         /\ selectedCategories' = Without(selectedCategories, value)
         /\ LoadSubCategories(selectedCategories')
         /\ UNCHANGED <<categories, stores, selectedStores, numeric, table, pages,
                        started, categoriesReq, storesReq, posted, listing,
                        endCascades, uncaught>>
    [] type = "sub" ->
         /\ value \in Range(selectedSubCategories)
         /\ selectedSubCategories' = Without(selectedSubCategories, value)
         /\ UNCHANGED <<options, selectedCategories, selectedEndCategories,
                        selectedStores, numeric, table, pages, started, requests,
                        uncaught>>
    [] type = "end" ->
         /\ value \in Range(selectedEndCategories)
         /\ selectedEndCategories' = Without(selectedEndCategories, value)
         /\ UNCHANGED <<options, selectedCategories, selectedSubCategories,
                        selectedStores, numeric, table, pages, started, requests,
                        uncaught>>
    [] type = "store" ->
         /\ value \in Range(selectedStores)
         /\ selectedStores' = Without(selectedStores, value)
         /\ UNCHANGED <<options, selectedCategories, selectedSubCategories,
                        selectedEndCategories, numeric, table, pages, started,
                        requests, uncaught>>

\* removeChip(type, value): a chip is shown for every selected value
RemoveChip(type, value) ==
  CASE type = "category" ->
         /\ value \in Range(selectedCategories)
         /\ Len(subCascades) < MaxCascades
         /\ selectedCategories' = Without(selectedCategories, value)
         /\ LoadSubCategories(selectedCategories')
         /\ UNCHANGED <<categories, stores, selectedStores, numeric, table, pages,
                        started, categoriesReq, storesReq, posted, listing,
                        endCascades, uncaught>>
    [] type = "sub" ->
         /\ value \in Range(selectedSubCategories)
         /\ Len(endCascades) < MaxCascades
         /\ selectedSubCategories' = Without(selectedSubCategories, value)
         /\ LoadEndCategories(selectedSubCategories')
         /\ UNCHANGED <<categories, subCategories, stores, selectedCategories,
                        selectedStores, numeric, table, pages, started,
                        categoriesReq, storesReq, posted, listing, subCascades,
                        uncaught>>
    [] type = "end" ->
         /\ value \in Range(selectedEndCategories)
         /\ selectedEndCategories' = Without(selectedEndCategories, value)
         /\ UNCHANGED <<options, selectedCategories, selectedSubCategories,
                        selectedStores, numeric, table, pages, started, requests,
                        uncaught>>
    [] type = "store" ->
         /\ value \in Range(selectedStores)
         /\ selectedStores' = Without(selectedStores, value)
         /\ UNCHANGED <<options, selectedCategories, selectedSubCategories,
                        selectedEndCategories, numeric, table, pages, started,
                        requests, uncaught>>

\* the price and discount inputs are bound to the four fields
SetNumericFilters(input) ==
  /\ started
  /\ <<minPrice, maxPrice, minDiscount, maxDiscount>> # input
  /\ minPrice' = input[1] /\ maxPrice' = input[2]
  /\ minDiscount' = input[3] /\ maxDiscount' = input[4]
  /\ UNCHANGED <<options, selections, table, pages, started, requests, uncaught>>

(* ---------------------------------------------------------------------- *)
(* TechDataComponent: cascade completions                                  *)
(* ---------------------------------------------------------------------- *)

\* the lookups piped without catchError: a failure fails the forkJoin, whose
\* subscriber has no error callback
SubLookupDone_NoCatchError(i, j, isError) ==
  /\ i \in 1..Len(subCascades)
  /\ j \in 1..Len(subCascades[i].parents)
  /\ ~subCascades[i].values[j].done
  /\ LET value == Labels(Bindings(SubCategoriesOf(subCascades[i].parents[j])))
         cascade == Settle(subCascades[i], j, value, FALSE)
     IN IF isError
        THEN /\ subCascades' = RemoveAt(subCascades, i)
             /\ uncaught' = TRUE
             /\ UNCHANGED subCategories
        ELSE /\ UNCHANGED uncaught
             /\ IF AllDone(cascade)
                THEN /\ subCategories' = Merged(cascade)
                     /\ subCascades' = RemoveAt(subCascades, i)
                ELSE /\ subCascades' = [subCascades EXCEPT ![i] = cascade]
                     /\ UNCHANGED subCategories
  /\ UNCHANGED <<categories, endCategories, stores, selections, numeric, table,
                 pages, started, categoriesReq, storesReq, posted, listing,
                 endCascades>>

\* the subscriber discarding the result of a cascade whose parents are no
\* longer the selected categories
SubLookupDone_Guarded(i, j, isError) ==
  /\ i \in 1..Len(subCascades)
  /\ j \in 1..Len(subCascades[i].parents)
  /\ ~subCascades[i].values[j].done
  /\ LET value == IF isError THEN <<>>
                  ELSE Labels(Bindings(SubCategoriesOf(subCascades[i].parents[j])))
         cascade == Settle(subCascades[i], j, value, isError)
     IN IF AllDone(cascade)
        THEN /\ subCategories' = IF cascade.parents = selectedCategories
                                 THEN Merged(cascade) ELSE subCategories
             /\ subCascades' = RemoveAt(subCascades, i)
        ELSE /\ subCascades' = [subCascades EXCEPT ![i] = cascade]
             /\ UNCHANGED subCategories
  /\ UNCHANGED <<categories, endCategories, stores, selections, numeric, table,
                 pages, started, categoriesReq, storesReq, posted, listing,
                 endCascades, uncaught>>

\* lookup j of sub-category cascade i completes; forkJoin emits, and the
\* subscriber publishes, in the same turn when it was the last one pending
SubLookupDone(i, j, isError) ==
  /\ i \in 1..Len(subCascades)
  /\ j \in 1..Len(subCascades[i].parents)
  /\ ~subCascades[i].values[j].done
  /\ LET value == IF isError THEN <<>>
                  ELSE Labels(Bindings(SubCategoriesOf(subCascades[i].parents[j])))
         cascade == Settle(subCascades[i], j, value, isError)
     IN IF AllDone(cascade)
        THEN /\ subCategories' = Merged(cascade)
             /\ subCascades' = RemoveAt(subCascades, i)
        ELSE /\ subCascades' = [subCascades EXCEPT ![i] = cascade]
             /\ UNCHANGED subCategories
  /\ UNCHANGED <<categories, endCategories, stores, selections, numeric, table,
                 pages, started, categoriesReq, storesReq, posted, listing,
                 endCascades, uncaught>>

EndLookupDone(i, j, isError) ==
  /\ i \in 1..Len(endCascades)
  /\ j \in 1..Len(endCascades[i].parents)
  /\ ~endCascades[i].values[j].done
  /\ LET value == IF isError THEN <<>>
                  ELSE Labels(Bindings(EndCategoriesOf(endCascades[i].parents[j])))
         cascade == Settle(endCascades[i], j, value, isError)
     IN IF AllDone(cascade)
        THEN /\ endCategories' = Merged(cascade)
             /\ endCascades' = RemoveAt(endCascades, i)
        ELSE /\ endCascades' = [endCascades EXCEPT ![i] = cascade]
             /\ UNCHANGED endCategories
  /\ UNCHANGED <<categories, subCategories, stores, selections, numeric, table,
                 pages, started, categoriesReq, storesReq, posted, listing,
                 subCascades, uncaught>>

(* ---------------------------------------------------------------------- *)
(* TechDataComponent: listing and pagination                               *)
(* ---------------------------------------------------------------------- *)

\* Math.floor in place of Math.ceil
TotalPagesOf_Floor(chars) ==
  LET n == ToNumber(chars)
  IN IF n.isNaN THEN 1
     ELSE IF n.value \div pageSize = 0 THEN 1
     ELSE n.value \div pageSize

\* Math.ceil(+value / pageSize) || 1
TotalPagesOf(chars) ==
  LET n == ToNumber(chars)
  IN IF n.isNaN THEN 1
     ELSE IF Ceil(n.value, pageSize) = 0 THEN 1
     ELSE Ceil(n.value, pageSize)

\* the next callback of fetchData(): reading row 0 of an empty page throws
\* after tableData has been assigned, and the rest of the callback is skipped
FetchDataNext(i, bindings) ==
  /\ i \in 1..Len(listing)
  /\ listing' = RemoveAt(listing, i)
  /\ tableData' = bindings
  /\ IF Len(bindings) = 0
     THEN /\ uncaught' = TRUE
          /\ UNCHANGED <<totalPages, isLoading>>
     ELSE /\ totalPages' = TotalPagesOf(bindings[1].totalCount.value)
          /\ isLoading' = FALSE
          /\ UNCHANGED uncaught
  /\ UNCHANGED <<options, selections, numeric, error, currentPage, started,
                 categoriesReq, storesReq, posted, subCascades, endCascades>>

\* the error callback also emptying the table
FetchDataError_ClearsTable(i) ==
  /\ i \in 1..Len(listing)
  /\ listing' = RemoveAt(listing, i)
  /\ error' = "Failed to fetch data from GraphDB. Please try again."
  /\ isLoading' = FALSE
  /\ tableData' = <<>>
  /\ UNCHANGED <<options, selections, numeric, pages, started,
                 categoriesReq, storesReq, posted, subCascades, endCascades,
                 uncaught>>

FetchDataError(i) ==
  /\ i \in 1..Len(listing)
  /\ listing' = RemoveAt(listing, i)
  /\ error' = "Failed to fetch data from GraphDB. Please try again."
  /\ isLoading' = FALSE
  /\ UNCHANGED <<options, selections, numeric, tableData, pages, started,
                 categoriesReq, storesReq, posted, subCascades, endCascades,
                 uncaught>>

\* applyFilters() without the reset of currentPage
ApplyFilters_KeepsPage ==
  /\ started
  /\ Len(listing) < MaxListing
  /\ FetchData(currentPage, selectedCategories, selectedSubCategories,
               selectedEndCategories, selectedStores)
  /\ UNCHANGED <<options, selections, numeric, tableData, pages, started,
                 categoriesReq, storesReq, subCascades, endCascades, uncaught>>

ApplyFilters ==
  /\ started
  /\ Len(listing) < MaxListing
  /\ currentPage' = 1
  /\ FetchData(currentPage', selectedCategories, selectedSubCategories,
               selectedEndCategories, selectedStores)
  /\ UNCHANGED <<options, selections, numeric, tableData, totalPages, started,
                 categoriesReq, storesReq, subCascades, endCascades, uncaught>>

NextPage ==
  /\ started
  /\ Len(listing) < MaxListing
  /\ IF currentPage < totalPages
     THEN /\ currentPage' = currentPage + 1
          /\ FetchData(currentPage', selectedCategories, selectedSubCategories,
                       selectedEndCategories, selectedStores)
     ELSE UNCHANGED <<currentPage, isLoading, error, posted, listing>>
  /\ UNCHANGED <<options, selections, numeric, tableData, totalPages, started,
                 categoriesReq, storesReq, subCascades, endCascades, uncaught>>

PrevPage ==
  /\ started
  /\ Len(listing) < MaxListing
  /\ IF currentPage > 1
     THEN /\ currentPage' = currentPage - 1
          /\ FetchData(currentPage', selectedCategories, selectedSubCategories,
                       selectedEndCategories, selectedStores)
     ELSE UNCHANGED <<currentPage, isLoading, error, posted, listing>>
  /\ UNCHANGED <<options, selections, numeric, tableData, totalPages, started,
                 categoriesReq, storesReq, subCascades, endCascades, uncaught>>

\* goToPage() without the upper clamp
TargetPage_NoUpperClamp(chars) ==
  LET page == ToNumber(chars)
  IN IF page.isNaN \/ page.value < 1 THEN 1 ELSE page.value

\* the page goToPage() settles on for the text of the input box
TargetPage(chars) ==
  LET page == ToNumber(chars)
      atLeastOne == IF page.isNaN \/ page.value < 1 THEN 1 ELSE page.value
  IN IF atLeastOne > totalPages THEN totalPages ELSE atLeastOne

GoToPage(chars) ==
  /\ started
  /\ Len(listing) < MaxListing
  /\ currentPage' = TargetPage(chars)
  /\ FetchData(currentPage', selectedCategories, selectedSubCategories,
               selectedEndCategories, selectedStores)
  /\ UNCHANGED <<options, selections, numeric, tableData, totalPages, started,
                 categoriesReq, storesReq, subCascades, endCascades, uncaught>>

(* ---------------------------------------------------------------------- *)
(* Specification                                                           *)
(* ---------------------------------------------------------------------- *)

ChipTypes == {"category", "sub", "end", "store"}

AllLabels ==
  Range(TopCategories) \cup Range(StoreLabels)
  \cup UNION { Range(SubCategoriesOf(c)) : c \in Range(TopCategories) }
  \cup UNION { Range(EndCategoriesOf(s)) :
                 s \in UNION { Range(SubCategoriesOf(c)) : c \in Range(TopCategories) } }

\* a step of the user: one more handler invocation of the session
Click(handler) ==
  /\ clicks < MaxClicks
  /\ clicks' = clicks + 1
  /\ handler

\* a step of the framework or of the HTTP collaborator
Callback(handler) ==
  /\ handler
  /\ UNCHANGED clicks

Next ==
  \/ Callback(NgOnInit)
  \/ Callback(LoadInitialCategoriesNext)
  \/ Callback(LoadInitialCategoriesError)
  \/ Callback(LoadStoresNext)
  \/ Callback(LoadStoresError)
  \/ \E v \in AllLabels, isChecked \in BOOLEAN : Click(OnCategoryChange(v, isChecked))
  \/ \E v \in AllLabels, isChecked \in BOOLEAN :
       Click(OnSubCategoryChange(v, isChecked))
  \/ \E v \in AllLabels, isChecked \in BOOLEAN :
       Click(OnEndCategoryChange(v, isChecked))
  \/ \E v \in AllLabels, isChecked \in BOOLEAN : Click(OnStoreChange(v, isChecked))
  \/ \E type \in ChipTypes, v \in AllLabels : Click(RemoveChip(type, v))
  \/ \E input \in NumericInputs : Click(SetNumericFilters(input))
  \/ \E i \in 1..Len(subCascades), isError \in BOOLEAN :
       \E j \in 1..Len(subCascades[i].parents) : Callback(SubLookupDone(i, j, isError))
  \/ \E i \in 1..Len(endCascades), isError \in BOOLEAN :
       \E j \in 1..Len(endCascades[i].parents) : Callback(EndLookupDone(i, j, isError))
  \/ \E i \in 1..Len(listing), bindings \in ListingResponses :
       Callback(FetchDataNext(i, bindings))
  \/ \E i \in 1..Len(listing) : Callback(FetchDataError(i))
  \/ Click(ApplyFilters)
  \/ Click(NextPage)
  \/ Click(PrevPage)
  \/ \E chars \in PageInputs : Click(GoToPage(chars))

Spec == Init /\ [][Next]_vars

\* a step of the framework or of the HTTP collaborator: ngOnInit, or the
\* completion of a request that is awaited
Completion ==
  \/ Callback(NgOnInit)
  \/ Callback(LoadInitialCategoriesNext)
  \/ Callback(LoadInitialCategoriesError)
  \/ Callback(LoadStoresNext)
  \/ Callback(LoadStoresError)
  \/ \E i \in 1..Len(subCascades), isError \in BOOLEAN :
       \E j \in 1..Len(subCascades[i].parents) : Callback(SubLookupDone(i, j, isError))
  \/ \E i \in 1..Len(endCascades), isError \in BOOLEAN :
       \E j \in 1..Len(endCascades[i].parents) : Callback(EndLookupDone(i, j, isError))
  \/ \E i \in 1..Len(listing), bindings \in ListingResponses :
       Callback(FetchDataNext(i, bindings))
  \/ \E i \in 1..Len(listing) : Callback(FetchDataError(i))

\* the component is initialised and every request posted is answered, with
\* a success or an error; the user may stop at any moment
LiveSpec == Spec /\ WF_vars(Completion)

(* ---------------------------------------------------------------------- *)
(* Properties                                                              *)
(* ---------------------------------------------------------------------- *)

\* this step posts a listing request
FetchIssued == Len(listing') = Len(listing) + 1

NoDuplicates(seq) == \A a, b \in 1..Len(seq) : seq[a] = seq[b] => a = b

\* the category filter block that references exactly the labels given
FilterOn(labels) ==
  CategoryPattern \o "FILTER(?catName IN (" \o QuotedList(labels) \o "))"

\* C1: the category filter of a posted query references exactly one set,
\* the most specific non-empty one among endCategories, subCategories and
\* categories, and no category filter is emitted when all three are empty.
C1_CategoryPrecedence ==
  \A k \in 1..Len(posted) :
    LET r == posted[k]
        rendered == r.query.categoryFilters
    IN /\ Len(r.endCategories) > 0 => rendered = FilterOn(r.endCategories)
       /\ (Len(r.endCategories) = 0 /\ Len(r.subCategories) > 0)
            => rendered = FilterOn(r.subCategories)
       /\ (Len(r.endCategories) = 0 /\ Len(r.subCategories) = 0
            /\ Len(r.categories) > 0) => rendered = FilterOn(r.categories)
       /\ (Len(r.endCategories) = 0 /\ Len(r.subCategories) = 0
            /\ Len(r.categories) = 0) => rendered = ""

\* a query was posted with all three levels selected
C1_Witness ==
  /\ posted # <<>>
  /\ Len(posted[1].categories) > 0
  /\ Len(posted[1].subCategories) > 0
  /\ Len(posted[1].endCategories) > 0

\* C2: every listing request posted carries limit = pageSize and
\* offset = (currentPage - 1) * pageSize for the page current when posted.
C2_OffsetOfPage ==
  [][FetchIssued =>
       /\ posted'[1].limit = pageSize
       /\ posted'[1].offset = (currentPage' - 1) * pageSize
       /\ posted'[1].query.limit = pageSize
       /\ posted'[1].query.offset = (currentPage' - 1) * pageSize]_vars

\* page 3 with page size 30 was requested at offset 60
C2_Witness ==
  /\ posted # <<>>
  /\ currentPage = 3
  /\ posted[1].query.offset = 60
  /\ posted[1].query.limit = 30

\* the least number of pages, at least one, that hold n rows
PagesFor(n) ==
  CHOOSE p \in 1..(n + 1) :
    /\ p * pageSize >= n
    /\ p = 1 \/ (p - 1) * pageSize < n

\* C3: processing a listing response whose rows carry totalCount = n sets
\* totalPages to ceil(n / pageSize), at least 1; totalPages is an integer
\* >= 1 in every reachable state.
C3_TotalPages ==
  /\ [](totalPages \in Nat /\ totalPages >= 1)
  /\ [][\A n \in TotalCounts :
          (\E i \in 1..Len(listing) : FetchDataNext(i, <<ListingRow(n)>>))
            => totalPages' = PagesFor(n)]_vars

\* a response with totalCount "61" was processed into three pages
C3_Witness ==
  /\ tableData = <<ListingRow(61)>>
  /\ totalPages = 3
  /\ ~isLoading

\* C4: a listing response with no rows is handled without throwing and
\* leaves totalPages = 1, the loading flag cleared and an empty table.
C4_EmptyPageHandled ==
  [][(\E i \in 1..Len(listing) : FetchDataNext(i, <<>>))
       => /\ uncaught' = uncaught
          /\ totalPages' = 1
          /\ isLoading' = FALSE
          /\ tableData' = <<>>]_vars

\* C5: once the only selected top category has been toggled off and no
\* cascade lookup is outstanding, the sub-category and end-category option
\* lists and selections are empty.
C5_ToggleOffStaysEmpty ==
  (started /\ selectedCategories = <<>> /\ subCascades = <<>> /\ endCascades = <<>>)
    => /\ subCategories = <<>>
       /\ selectedSubCategories = <<>>
       /\ endCategories = <<>>
       /\ selectedEndCategories = <<>>

\* the lookups of a cascade that have succeeded once lookup j has completed
Succeeded(cascade, j, isError) ==
  { k \in 1..Len(cascade.parents) :
      IF k = j THEN ~isError ELSE cascade.values[k].done /\ k \notin cascade.failed }

\* lookup j is the last one the cascade waits for
LastPending(cascade, j) ==
  \A k \in 1..Len(cascade.parents) : k # j => cascade.values[k].done

\* C6: when the last lookup of a cascade completes, the cascade publishes
\* the duplicate-free union of the labels of its successful lookups only;
\* a failed lookup raises no exception and leaves the error string alone.
C6_FailedLookupContributesNothing ==
  [][/\ \A i \in 1..Len(subCascades), isError \in BOOLEAN :
          \A j \in 1..Len(subCascades[i].parents) :
            SubLookupDone(i, j, isError)
              => /\ error' = error
                 /\ uncaught' = uncaught
                 /\ LastPending(subCascades[i], j)
                      => /\ Len(subCascades') = Len(subCascades) - 1
                         /\ NoDuplicates(subCategories')
                         /\ Range(subCategories') =
                              UNION { Range(SubCategoriesOf(subCascades[i].parents[k])) :
                                        k \in Succeeded(subCascades[i], j, isError) }
     /\ \A i \in 1..Len(endCascades), isError \in BOOLEAN :
          \A j \in 1..Len(endCascades[i].parents) :
            EndLookupDone(i, j, isError)
              => /\ error' = error
                 /\ uncaught' = uncaught
                 /\ LastPending(endCascades[i], j)
                      => /\ Len(endCascades') = Len(endCascades) - 1
                         /\ NoDuplicates(endCategories')
                         /\ Range(endCategories') =
                              UNION { Range(EndCategoriesOf(endCascades[i].parents[k])) :
                                        k \in Succeeded(endCascades[i], j, isError) }]_vars

\* after selecting Laptops and then Phones, the cascade over both has
\* published with the Laptops lookup failed and the Phones lookup answered
C6_Witness ==
  /\ clicks = 2
  /\ selectedCategories = <<"Laptops", "Phones">>
  /\ subCascades = <<>>
  /\ subCategories = <<"Gaming">>
  /\ error = NULL /\ ~uncaught

\* the page a go-to-page input asks for (0 when it names no page >= 1)
Requested(chars) ==
  CASE chars = <<"2">>      -> 2
    [] chars = <<"3">>      -> 3
    [] chars = <<"9", "9">> -> 99
    [] OTHER                -> 0

PagedTo(page) ==
  /\ currentPage' = page
  /\ FetchIssued
  /\ posted'[1].query.offset = (page - 1) * pageSize

NoPaging ==
  /\ currentPage' = currentPage
  /\ listing' = listing
  /\ posted' = posted

\* C7 as stated: next page, previous page and go-to-page each end on a
\* page within [1, totalPages] and post a fetch for it.
C7_AlwaysClampAndFetch ==
  [][(NextPage \/ PrevPage \/ \E chars \in PageInputs : GoToPage(chars))
       => /\ currentPage' >= 1
          /\ currentPage' <= totalPages'
          /\ PagedTo(currentPage')]_vars

\* C7 as amended: go-to-page clamps the requested page to [1, totalPages]
\* and always posts a fetch; next page moves and fetches only below
\* totalPages, previous page only above 1, and otherwise neither changes
\* the page nor posts a fetch.
C7_PageMoves ==
  [][/\ \A chars \in PageInputs :
          GoToPage(chars)
            => /\ currentPage' >= 1 /\ currentPage' <= totalPages
               /\ Requested(chars) < 1 => currentPage' = 1
               /\ Requested(chars) > totalPages => currentPage' = totalPages
               /\ Requested(chars) \in 1..totalPages => currentPage' = Requested(chars)
               /\ PagedTo(currentPage')
     /\ NextPage => IF currentPage < totalPages
                    THEN PagedTo(currentPage + 1) /\ currentPage' <= totalPages
                    ELSE NoPaging
     /\ PrevPage => IF currentPage > 1
                    THEN PagedTo(currentPage - 1) /\ currentPage' >= 1
                    ELSE NoPaging]_vars

\* the first click went to the last of three pages and its fetch is awaited
C7_Witness ==
  /\ clicks = 1
  /\ totalPages = 3
  /\ currentPage = totalPages
  /\ Len(listing) = 1
  /\ posted[1].offset = 60

\* C8: applyFilters sets currentPage to 1 and posts one listing request
\* with offset 0 that carries the selections and numeric bounds of that
\* moment.
C8_ApplyResetsPage ==
  [][ApplyFilters =>
       /\ currentPage' = 1
       /\ FetchIssued
       /\ posted'[1].offset = 0
       /\ posted'[1].query.offset = 0
       /\ posted'[1].categories = selectedCategories
       /\ posted'[1].subCategories = selectedSubCategories
       /\ posted'[1].endCategories = selectedEndCategories
       /\ posted'[1].selectedStores = selectedStores
       /\ <<posted'[1].minPrice, posted'[1].maxPrice,
            posted'[1].minDiscount, posted'[1].maxDiscount>> = numeric
       /\ posted'[1].query =
            GetGraphData(pageSize, 0, selectedCategories, selectedSubCategories,
                         selectedEndCategories, minPrice, maxPrice, minDiscount,
                         maxDiscount, selectedStores)]_vars

\* filters were applied, with a selection and bounds, while the startup
\* fetch was still awaited
C8_Witness ==
  /\ Len(listing) = 2
  /\ currentPage = 1
  /\ posted[1].offset = 0
  /\ Len(posted[1].categories) > 0
  /\ posted[1].minPrice # NoNumber

\* C9: a failed listing fetch sets the error string and clears the loading
\* flag; table contents, totalPages, currentPage and every selection stay
\* as they were and no exception escapes.
C9_FetchFailure ==
  [][(\E i \in 1..Len(listing) : FetchDataError(i))
       => /\ error' = "Failed to fetch data from GraphDB. Please try again."
          /\ isLoading' = FALSE
          /\ tableData' = tableData
          /\ totalPages' = totalPages
          /\ currentPage' = currentPage
          /\ selections' = selections
          /\ numeric' = numeric
          /\ uncaught' = uncaught]_vars

\* a fetch failed on page 3 of 3 with a table on display
C9_Witness ==
  /\ error = "Failed to fetch data from GraphDB. Please try again."
  /\ ~isLoading
  /\ tableData # <<>>
  /\ totalPages = 3
  /\ currentPage = 3
  /\ listing = <<>>

\* C10: removing the chip of a value is the same step as toggling that
\* value off at the same level: same resulting state, same lookups started.
C10_ChipIsToggleOff ==
  [][/\ \A v \in Range(selectedCategories) :
          RemoveChip("category", v) <=> OnCategoryChange(v, FALSE)
     /\ \A v \in Range(selectedSubCategories) :
          RemoveChip("sub", v) <=> OnSubCategoryChange(v, FALSE)
     /\ \A v \in Range(selectedEndCategories) :
          RemoveChip("end", v) <=> OnEndCategoryChange(v, FALSE)
     /\ \A v \in Range(selectedStores) :
          RemoveChip("store", v) <=> OnStoreChange(v, FALSE)]_vars

\* Laptops was deselected while Phones stayed selected: the cascade over
\* both is followed by a cascade over Phones alone
C10_Witness ==
  /\ selectedCategories = <<"Phones">>
  /\ Len(subCascades) = 2
  /\ subCascades[1].parents = <<"Laptops", "Phones">>
  /\ subCascades[2].parents = <<"Phones">>

\* the selection after value v has been checked or unchecked
Toggled(selected, v, isChecked) ==
  IF isChecked THEN Range(selected) \cup {v} ELSE Range(selected) \ {v}

\* this step starts one lookup per parent given, all of them outstanding,
\* as a new cascade behind the ones in flight; none when there is no parent
StartsLookups(before, after, parents) ==
  IF Len(parents) = 0 THEN after = before
  ELSE /\ Len(after) = Len(before) + 1
       /\ \A k \in 1..Len(before) : after[k] = before[k]
       /\ after[Len(after)].parents = parents
       /\ NoDuplicates(parents)
       /\ \A k \in 1..Len(parents) : ~after[Len(after)].values[k].done

\* C11: toggling a sub-category adds it to or removes it from
\* selectedSubCategories, clears selectedEndCategories and the end-category
\* option list at once, and starts one end-category lookup per sub-category
\* then selected (none when there is none); selectedCategories, the
\* sub-category option list and selectedStores are left as they were.
C11_SubToggle ==
  [][\A v \in AllLabels, isChecked \in BOOLEAN :
       OnSubCategoryChange(v, isChecked)
         => /\ Range(selectedSubCategories') =
                 Toggled(selectedSubCategories, v, isChecked)
            /\ NoDuplicates(selectedSubCategories')
            /\ selectedEndCategories' = <<>>
            /\ endCategories' = <<>>
            /\ StartsLookups(endCascades, endCascades', selectedSubCategories')
            /\ selectedCategories' = selectedCategories
            /\ subCategories' = subCategories
            /\ selectedStores' = selectedStores
            /\ subCascades' = subCascades
            /\ listing' = listing]_vars

\* a second sub-category was ticked after the end categories of the first
\* had been listed: the list is empty again and both lookups are awaited
C11_Witness ==
  /\ selectedSubCategories = <<"Gaming", "Ultrabook">>
  /\ endCategories = <<>>
  /\ selectedEndCategories = <<>>
  /\ Len(endCascades) = 1
  /\ endCascades[1].parents = <<"Gaming", "Ultrabook">>
  /\ ~endCascades[1].values[1].done /\ ~endCascades[1].values[2].done

\* C12: toggling an end category changes selectedEndCategories only and
\* toggling a store changes selectedStores only; neither starts a lookup
\* or a listing fetch, and the option lists, the other selections, the
\* page state and the table are left as they were.
C12_LeafToggles ==
  [][\A v \in AllLabels, isChecked \in BOOLEAN :
       /\ OnEndCategoryChange(v, isChecked)
            => /\ Range(selectedEndCategories') =
                    Toggled(selectedEndCategories, v, isChecked)
               /\ <<selectedCategories, selectedSubCategories, selectedStores>>' =
                    <<selectedCategories, selectedSubCategories, selectedStores>>
               /\ <<options, numeric, table, pages, requests>>' =
                    <<options, numeric, table, pages, requests>>
       /\ OnStoreChange(v, isChecked)
            => /\ Range(selectedStores') = Toggled(selectedStores, v, isChecked)
               /\ <<selectedCategories, selectedSubCategories,
                    selectedEndCategories>>' =
                    <<selectedCategories, selectedSubCategories,
                      selectedEndCategories>>
               /\ <<options, numeric, table, pages, requests>>' =
                    <<options, numeric, table, pages, requests>>]_vars

\* an end category and a store are both ticked, with the startup listing
\* still the only request posted
C12_Witness ==
  /\ selectedEndCategories = <<"RTX">>
  /\ selectedStores = <<"Anhoch">>
  /\ posted # <<>> /\ posted[1].offset = 0 /\ posted[1].selectedStores = <<>>
  /\ subCascades = <<>> /\ endCascades = <<>>

\* the labels the lookups for the parents given return when none fails
UnionOf(parents, ChildrenOf(_)) ==
  UNION { Range(ChildrenOf(parents[k])) : k \in 1..Len(parents) }

\* C13: cascades are not guarded against supersession. A cascade whose
\* parents are no longer the selected ones still replaces the option list
\* when its last lookup completes, so an earlier cascade that completes
\* after a later one overwrites the later one's list.
C13_SupersededCascadePublishes ==
  [][/\ \A i \in 1..Len(subCascades), isError \in BOOLEAN :
          \A j \in 1..Len(subCascades[i].parents) :
            (/\ SubLookupDone(i, j, isError)
             /\ LastPending(subCascades[i], j)
             /\ subCascades[i].parents # selectedCategories)
              => Range(subCategories') =
                   UNION { Range(SubCategoriesOf(subCascades[i].parents[k])) :
                             k \in Succeeded(subCascades[i], j, isError) }
     /\ \A i \in 1..Len(endCascades), isError \in BOOLEAN :
          \A j \in 1..Len(endCascades[i].parents) :
            (/\ EndLookupDone(i, j, isError)
             /\ LastPending(endCascades[i], j)
             /\ endCascades[i].parents # selectedSubCategories)
              => Range(endCategories') =
                   UNION { Range(EndCategoriesOf(endCascades[i].parents[k])) :
                             k \in Succeeded(endCascades[i], j, isError) }]_vars

\* no lookup is in flight, a category is selected, and the sub-category
\* list holds a label that no lookup for the selected categories returns:
\* the list on display was published last by a superseded cascade
C13_Witness ==
  /\ subCascades = <<>> /\ endCascades = <<>>
  /\ selectedCategories # <<>>
  /\ ~(Range(subCategories) \subseteq UnionOf(selectedCategories, SubCategoriesOf))

\* C14: a cascade replaces the option list only in the step in which the
\* last of its lookups completes, and it is gone after that step; while
\* another of its lookups is outstanding a completion leaves the option
\* list as it was, so no partial union is published.
C14_PublishesOnceWhenComplete ==
  [][/\ \A i \in 1..Len(subCascades), isError \in BOOLEAN :
          \A j \in 1..Len(subCascades[i].parents) :
            SubLookupDone(i, j, isError)
              => IF LastPending(subCascades[i], j)
                 THEN /\ Len(subCascades') = Len(subCascades) - 1
                      /\ subCategories' =
                           Merged(Settle(subCascades[i], j,
                                         IF isError THEN <<>>
                                         ELSE SubCategoriesOf(subCascades[i].parents[j]),
                                         isError))
                 ELSE /\ subCategories' = subCategories
                      /\ Len(subCascades') = Len(subCascades)
                      /\ subCascades'[i].values[j].done
     /\ \A i \in 1..Len(endCascades), isError \in BOOLEAN :
          \A j \in 1..Len(endCascades[i].parents) :
            EndLookupDone(i, j, isError)
              => IF LastPending(endCascades[i], j)
                 THEN /\ Len(endCascades') = Len(endCascades) - 1
                      /\ endCategories' =
                           Merged(Settle(endCascades[i], j,
                                         IF isError THEN <<>>
                                         ELSE EndCategoriesOf(endCascades[i].parents[j]),
                                         isError))
                 ELSE /\ endCategories' = endCategories
                      /\ Len(endCascades') = Len(endCascades)
                      /\ endCascades'[i].values[j].done]_vars

\* of the two lookups of a cascade one has answered with labels and the
\* other is outstanding: the sub-category list is still empty
C14_Witness ==
  /\ Len(subCascades) = 1
  /\ subCascades[1].parents = <<"Laptops", "Phones">>
  /\ subCascades[1].values[1].done
  /\ subCascades[1].values[1].value = <<"Gaming", "Ultrabook">>
  /\ ~subCascades[1].values[2].done
  /\ subCategories = <<>>

\* C15: in every reachable state 1 <= currentPage <= totalPages.
C15_PageWithinRange == currentPage >= 1 /\ currentPage <= totalPages

\* C16: the listing response that arrives last, leaving no fetch in
\* flight, and is put on display is the response to the fetch issued most
\* recently.
C16_NewestResponseShown ==
  [][\A bindings \in ListingResponses :
       (Len(listing) = 1 /\ FetchDataNext(1, bindings)) => listing[1].newest]_vars

\* C17: once the first fetch has been issued, the loading flag is true
\* exactly in the states in which a listing fetch is in flight.
C17_LoadingIffInFlight == started => (isLoading <=> listing # <<>>)

\* C18: with no sub-category cascade in flight the selected sub-categories
\* are among the sub-category options, and with no end-category cascade
\* in flight the selected end categories are among the end-category
\* options.
C18_SelectionWithinOptions ==
  /\ subCascades = <<>>
       => Range(selectedSubCategories) \subseteq Range(subCategories)
  /\ endCascades = <<>>
       => Range(selectedEndCategories) \subseteq Range(endCategories)

\* the filter selection a listing request carries
FiltersOf(request) ==
  <<request.categories, request.subCategories, request.endCategories,
    request.selectedStores, request.minPrice, request.maxPrice,
    request.minDiscount, request.maxDiscount>>

\* C19: a listing request posted by nextPage, prevPage or goToPage
\* carries the filter selection of the request posted before it, hence of
\* the most recent applyFilters or startup fetch.
C19_PagingKeepsAppliedFilters ==
  [][((NextPage \/ PrevPage \/ \E chars \in PageInputs : GoToPage(chars))
        /\ FetchIssued)
       => FiltersOf(posted'[1]) = FiltersOf(posted[1])]_vars

\* C20: when every request is answered, the controller ends up for good
\* in a state with the loading flag down, no listing fetch awaited and
\* every cascade published.
C20_Quiescence ==
  <>[](/\ started /\ ~isLoading
       /\ listing = <<>> /\ subCascades = <<>> /\ endCascades = <<>>)

====
